---- MODULE Spec2Model ----
(***************************************************************************)
(* Model of client/src/components/WorkflowInvocationState/providers/       *)
(* monitors.js: the content monitors (datasetMonitor,                      *)
(* datasetCollectionMonitor -> createContentMonitor -> createMonitor) and  *)
(* the invocation step monitor (invocationStepMonitor ->                   *)
(* createInvocationStepMonitor), with the RxJS operators they are built    *)
(* from (switchMap, race, take, concat, share, delay, mergeMap, repeat,    *)
(* takeWhile) unfolded into the events of the single JavaScript thread.    *)
(* One action is one callback run to completion.                           *)
(* The file does not fix the version of rxjs it is built with, and the     *)
(* major versions differ in one respect that shows here: when a source of  *)
(* concat completes, rxjs 6 subscribes the next source before the          *)
(* completed one is torn down, rxjs 7 after. Both are modelled: a run     *)
(* follows one of them, settled where the difference first shows.          *)
(***************************************************************************)
EXTENDS Integers, Sequences, FiniteSets, TLC

\* ------------------------------------------------------------------ bounds
MaxSubmits == 2        \* identifiers submitted to one selector
MaxInputs == 3         \* inputs of a run: identifiers submitted, unsubscription,
                       \* and mutations of the store by its other writers
TickStep == 250        \* granularity of the clock (ms)

\* ------------------------------------------------------- program constants
SpinUpDelay == 250     \* createContentMonitor / createMonitor default
PollInterval == 3000   \* delay(3000) of pollingFetch$

\* the monitor requests submitted: <<identifier, content type>>
Requests == {<<"A", "dataset">>, <<"B", "dataset_collection">>, <<"C", "widget">>}
Absent == 0            \* the no-match snapshot (a falsy value)

VARIABLES
    kind,       \* the selector built: a content monitor or the step monitor
    rxjs,       \* major version of the rxjs the module is built with (6 or 7),
                \* 0 while no step of the run has depended on it
    inputs,     \* number of inputs so far
    store,      \* cache store: selector key -> record revision, or Absent
    rev,        \* last revision written to the store
    selState,   \* subscriber of the selector's output: open / error / closed
    sess,       \* the createContentMonitor calls of the selector, in order
    queries,    \* the cache query feeds opened by monitorContentQuery
    out,        \* values emitted on the selector's output
    errLog,     \* console.error reports
    stepSel,    \* subscriber of invocationStepMonitor's output
    steps,      \* the createInvocationStepMonitor calls, in order
    fetches,    \* the calls of fetchInvocationStepById, in order
    stepOut,    \* values emitted on invocationStepMonitor's output
    argStep,    \* the step a direct call of stepIsTerminal is given
    isTerminal  \* what that call returned: <<>> before it returns

svars == <<stepSel, steps, fetches, stepOut>>
cvars == <<kind, rxjs, argStep, isTerminal, store, rev, selState, sess, queries, out, errLog>>
vars == <<kind, rxjs, argStep, isTerminal, inputs, store, rev, selState, sess, queries, out, errLog, stepSel, steps, fetches, stepOut>>

\* faulty variant: the switch falls through to a default fetcher
fetcherOfDefault(contentType) ==
    IF contentType = "dataset_collection" THEN "fetchDatasetCollectionById" ELSE "fetchDatasetById"

\* createContentMonitor's switch: the fetcher of a content type
fetcherOf(contentType) ==
    CASE contentType = "dataset" -> "fetchDatasetById"
      [] contentType = "dataset_collection" -> "fetchDatasetCollectionById"
      [] OTHER -> "undefined"

\* buildPouchRequest: the selector {id: {$eq: id}, history_content_type}
buildPouchRequest(id, contentType) == <<id, contentType>>

\* the selectors a record of the store can match
Keys == {buildPouchRequest(r[1], r[2]) : r \in {x \in Requests : fetcherOf(x[2]) # "undefined"}}

\* faulty variant: the filter inverted
existingInverted(v) == v = Absent

\* faulty variant: the filter left out
existingAll(v) == TRUE

\* filter(Boolean) of existing$
existing(v) == v # Absent

\* changes$ itself is not filtered: deletions pass
changes(v) == TRUE

\* phases in which the subscription made by createMonitor is alive
Live == {"race", "tail"}

\* faulty variant: the fetch side is never unsubscribed
FetchSubscribedAlways(ss, s) == TRUE

\* faulty variant: the race does not unsubscribe the side that lost
FetchSubscribedUntilCancel(ss, s) == ss[s].phase \in Live

\* The fetch side of the race (delay -> fetcher -> mergeMap(cacheContent)) is
\* subscribed exactly while the race is undecided.
FetchSubscribed(ss, s) == ss[s].phase = "race"

\* Unsubscribing the observable createMonitor returned (switchMap does it to
\* the previous inner observable): the session ends and its delay() action,
\* pending or done, is gone from the scheduler.
Unsub(r) ==
    IF r.phase \in Live
    THEN [r EXCEPT !.phase = "cancelled", !.timer = "none", !.age = 0, !.due = 0]
    ELSE r

\* faulty variant: mergeMap in place of switchMap: nothing is unsubscribed
SupersedeNone(ss) == ss

Supersede(ss) == [i \in DOMAIN ss |-> Unsub(ss[i])]

\* share(): the source query is unsubscribed when its last subscriber leaves
CloseDead(qs, ss) ==
    [i \in DOMAIN qs |->
        IF qs[i].open /\ ss[qs[i].s].phase \notin Live
        THEN [qs[i] EXCEPT !.open = FALSE, !.hist = <<>>, !.next = 1]
        ELSE qs[i]]

\* monitorContentQuery |> singleUpdateResult: a feed opened on a selector
\* first reports the current match, then one snapshot per store mutation
OpenQuery(s, key, st) == [s |-> s, key |-> key, open |-> TRUE, hist |-> <<st[key]>>, next |-> 1]

\* a store mutation reaches every open feed whose selector matches
Notify(qs, key, v) ==
    [i \in DOMAIN qs |->
        IF qs[i].open /\ qs[i].key = key
        THEN [qs[i] EXCEPT !.hist = Append(@, v)]
        ELSE qs[i]]

\* faulty variant: the delay left out
delayNone(t, d) == t

\* delay(d): the value is handed on by a scheduler action due d ms after t,
\* the time at which delay received it
delayDue(t, d) == t + d

NewSession(id, contentType) ==
    [id |-> id, ct |-> contentType, phase |-> "race",
     timer |-> "armed", age |-> 0, due |-> delayDue(0, SpinUpDelay),
     net |-> "none", fetcher |-> "none", cw |-> "none", wrev |-> 0,
     pre |-> store[buildPouchRequest(id, contentType)]]

ThrownSession(id, contentType) ==
    [id |-> id, ct |-> contentType, phase |-> "threw",
     timer |-> "none", age |-> 0, due |-> 0,
     net |-> "none", fetcher |-> "none", cw |-> "none", wrev |-> 0,
     pre |-> Absent]

Init ==
    /\ kind \in {"content", "step"}
    /\ rxjs = 0
    /\ inputs = 0
    /\ store = [k \in Keys |-> Absent]
    /\ rev = 0
    /\ selState = "open"
    /\ sess = <<>>
    /\ queries = <<>>
    /\ out = <<>>
    /\ errLog = <<>>
    /\ stepSel = "open"
    /\ steps = <<>>
    /\ fetches = <<>>
    /\ stepOut = <<>>
    /\ argStep = [state |-> "none", jobs |-> <<>>]
    /\ isTerminal = <<>>

\* ------------------------------------------------------------ the scheduler
\* Time passes. The clock is read by pending delay() actions only, so time
\* is kept per subscription: age is the time since createMonitor was
\* subscribed, counted until its delay() action runs or is removed.
Tick ==
    /\ kind = "content"
    /\ \E s \in DOMAIN sess : sess[s].timer = "armed" /\ sess[s].age < sess[s].due
    /\ sess' = [s \in DOMAIN sess |->
                  IF sess[s].timer = "armed" THEN [sess[s] EXCEPT !.age = @ + TickStep] ELSE sess[s]]
    /\ UNCHANGED <<kind, rxjs, argStep, isTerminal, inputs, store, rev, selState, queries, out, errLog, stepSel, steps, fetches, stepOut>>

\* ------------------------------------- datasetMonitor / createContentMonitor
\* switchMap((id) => createContentMonitor(id, contentType, spinUpDelay)).
\* A known type: the previous inner subscription is dropped, then concat
\* subscribes firstValue$, race subscribes fetchItem$ (of(id) |> delay arms
\* the timer) and existing$ (share connects: the query is opened).
\* An unknown type: console.error, then createMonitor evaluates fetcher()
\* with fetcher undefined and throws; switchMap hands the exception to the
\* output as an error, which tears the whole chain down.
\* contentType is the argument of createContentMonitor, bound when the
\* selector is built: every submission to one selector carries the same.
Submit(id, contentType) ==
    /\ kind = "content"
    /\ inputs < MaxInputs
    /\ inputs' = inputs + 1
    /\ selState = "open"
    /\ Len(sess) < MaxSubmits
    /\ \A i \in DOMAIN sess : sess[i].ct = contentType
    /\ LET s == Len(sess) + 1
           prev == Supersede(sess)
       IN IF fetcherOf(contentType) # "undefined"
          THEN /\ sess' = Append(prev, NewSession(id, contentType))
               /\ queries' = Append(CloseDead(queries, prev),
                                    OpenQuery(s, buildPouchRequest(id, contentType), store))
               /\ UNCHANGED <<selState, errLog>>
          ELSE /\ errLog' = Append(errLog, <<contentType, id>>)
               /\ sess' = Append(prev, ThrownSession(id, contentType))
               /\ queries' = CloseDead(queries, prev)
               /\ selState' = "error"
    /\ UNCHANGED <<kind, rxjs, argStep, isTerminal, store, rev, out, stepSel, steps, fetches, stepOut>>

\* the caller unsubscribes the selector
Unsubscribe ==
    /\ kind = "content"
    /\ inputs < MaxInputs
    /\ inputs' = inputs + 1
    /\ selState = "open"
    /\ selState' = "closed"
    /\ sess' = Supersede(sess)
    /\ queries' = CloseDead(queries, sess')
    /\ UNCHANGED <<kind, rxjs, argStep, isTerminal, store, rev, out, errLog, stepSel, steps, fetches, stepOut>>

\* faulty variant: the error is swallowed
FailSwallowed(ss, s) == ss

\* An error of the inner observable: race forwards the error of either side,
\* concat and switchMap forward it to the output, everything is torn down.
Fail(ss, s) == [i \in DOMAIN ss |-> IF i = s THEN [Unsub(ss[i]) EXCEPT !.phase = "error"] ELSE Unsub(ss[i])]

\* ------------------------------------------------------ createMonitor: fetch
\* delay(spinUpDelay) elapses: the id reaches fetcher(), the request is sent
TimerFire(s) ==
    /\ kind = "content"
    /\ sess[s].timer = "armed"
    /\ sess[s].age >= sess[s].due
    /\ sess' = [sess EXCEPT ![s].timer = "fired", ![s].net = "inflight",
                             ![s].fetcher = fetcherOf(sess[s].ct)]
    /\ UNCHANGED <<kind, rxjs, argStep, isTerminal, inputs, store, rev, selState, queries, out, errLog, stepSel, steps, fetches, stepOut>>

\* the response arrives: mergeMap calls cacheContent(rawJson, true), unless
\* the fetch side was unsubscribed meanwhile (the response is then dropped)
FetchResolve(s) ==
    /\ kind = "content"
    /\ sess[s].net = "inflight"
    /\ IF FetchSubscribed(sess, s)
       THEN sess' = [sess EXCEPT ![s].net = "resolved", ![s].cw = "called"]
       ELSE sess' = [sess EXCEPT ![s].net = "dropped"]
    /\ UNCHANGED <<kind, rxjs, argStep, isTerminal, inputs, store, rev, selState, queries, out, errLog, stepSel, steps, fetches, stepOut>>

\* the request fails
FetchFail(s) ==
    /\ kind = "content"
    /\ sess[s].net = "inflight"
    /\ IF FetchSubscribed(sess, s)
       THEN /\ sess' = Fail([sess EXCEPT ![s].net = "failed"], s)
            /\ queries' = CloseDead(queries, sess')
            /\ selState' = "error"
       ELSE /\ sess' = [sess EXCEPT ![s].net = "fail-dropped"]
            /\ UNCHANGED <<queries, selState>>
    /\ UNCHANGED <<kind, rxjs, argStep, isTerminal, inputs, store, rev, out, errLog, stepSel, steps, fetches, stepOut>>

\* cacheContent stores the payload (a promise: it runs whether or not its
\* caller is still subscribed); the open feeds see the mutation
CacheWriteApply(s) ==
    /\ kind = "content"
    /\ sess[s].cw = "called"
    /\ LET key == buildPouchRequest(sess[s].id, sess[s].ct)
       IN /\ rev' = rev + 1
          /\ store' = [store EXCEPT ![key] = rev + 1]
          /\ queries' = Notify(queries, key, rev + 1)
          /\ sess' = [sess EXCEPT ![s].cw = "applied", ![s].wrev = rev + 1]
    /\ UNCHANGED <<kind, rxjs, argStep, isTerminal, inputs, selState, out, errLog, stepSel, steps, fetches, stepOut>>

\* cacheContent rejects
CacheWriteFail(s) ==
    /\ kind = "content"
    /\ sess[s].cw = "called"
    /\ IF FetchSubscribed(sess, s)
       THEN /\ sess' = Fail([sess EXCEPT ![s].cw = "failed"], s)
            /\ queries' = CloseDead(queries, sess')
            /\ selState' = "error"
       ELSE /\ sess' = [sess EXCEPT ![s].cw = "fail-dropped"]
            /\ UNCHANGED <<queries, selState>>
    /\ UNCHANGED <<kind, rxjs, argStep, isTerminal, inputs, store, rev, out, errLog, stepSel, steps, fetches, stepOut>>

\* race(fetchItem$, existing$) |> take(1), then concat(firstValue$, changes$),
\* when the fetch side delivers first: race unsubscribes existing$ (the last
\* subscriber of share(): the query is closed), the value is emitted, take
\* completes and concat subscribes changes$ (share connects again: a new
\* query is opened).
FetchWins(ss, qs, s, st) ==
    LET ss2 == [ss EXCEPT ![s].phase = "tail", ![s].cw = "returned",
                          ![s].timer = "none", ![s].age = 0, ![s].due = 0]
        closed == [i \in DOMAIN qs |->
                     IF qs[i].open /\ qs[i].s = s
                     THEN [qs[i] EXCEPT !.open = FALSE, !.hist = <<>>, !.next = 1]
                     ELSE qs[i]]
    IN <<ss2, Append(closed, OpenQuery(s, buildPouchRequest(ss[s].id, ss[s].ct), st))>>

\* share() between the race and the tail when existing$ has won. take(1)
\* completes firstValue$ and concat subscribes changes$:
\*  - rxjs 6: before firstValue$ is torn down; the subject keeps a
\*    subscriber throughout and query q stays connected;
\*  - rxjs 7: after; the last subscriber leaves, the query is closed, and
\*    the subscription of changes$ connects again: a new query is opened.
TailFeeds(qs, q, r, st, ver) ==
    IF ver = 6
    THEN [qs EXCEPT ![q].next = @ + 1]
    ELSE Append([qs EXCEPT ![q] = [@ EXCEPT !.open = FALSE, !.hist = <<>>, !.next = 1]],
                OpenQuery(qs[q].s, buildPouchRequest(r.id, r.ct), st))

\* cacheContent's promise resolves with the cached record
CacheWriteReturn(s) ==
    /\ kind = "content"
    /\ sess[s].cw = "applied"
    /\ IF FetchSubscribed(sess, s)
       THEN LET w == FetchWins(sess, queries, s, store)
            IN /\ sess' = w[1]
               /\ queries' = w[2]
               /\ out' = Append(out, [s |-> s, v |-> sess[s].wrev, src |-> "fetch"])
       ELSE /\ sess' = [sess EXCEPT ![s].cw = "dropped"]
            /\ UNCHANGED <<queries, out>>
    /\ UNCHANGED <<kind, rxjs, argStep, isTerminal, inputs, store, rev, selState, errLog, stepSel, steps, fetches, stepOut>>

\* ------------------------------------------------- createMonitor: cache feed
\* The query delivers its next snapshot to the share() subject.
\*  - race undecided: existing$ drops an absent snapshot; a present one wins:
\*    race unsubscribes fetchItem$, the value is emitted, take completes and
\*    concat subscribes changes$ (TailFeeds).
\*  - afterwards: changes$ passes every snapshot through.
\* faulty variant: the race leaves the delay of the fetch side pending
CacheWinsNoCancel(r) == [r EXCEPT !.phase = "tail"]

\* faulty variant: take(1) without the concat: the first value ends the session
CacheWinsComplete(r) == [r EXCEPT !.phase = "complete", !.timer = "none", !.age = 0, !.due = 0]

CacheWins(r) == [r EXCEPT !.phase = "tail", !.timer = "none", !.age = 0, !.due = 0]

FeedDeliver(q) ==
    /\ kind = "content"
    /\ queries[q].open
    /\ queries[q].next <= Len(queries[q].hist)
    /\ LET s == queries[q].s
           v == queries[q].hist[queries[q].next]
       IN IF sess[s].phase = "race"
          THEN IF existing(v)
               THEN /\ sess' = [sess EXCEPT ![s] = CacheWins(@)]
                    /\ out' = Append(out, [s |-> s, v |-> v, src |-> "cache"])
                    /\ \E ver \in (IF rxjs = 0 THEN {6, 7} ELSE {rxjs}) :
                           /\ rxjs' = ver
                           /\ queries' = TailFeeds(queries, q, sess[s], store, ver)
               ELSE /\ queries' = [queries EXCEPT ![q].next = @ + 1]
                    /\ UNCHANGED <<rxjs, sess, out>>
          ELSE /\ queries' = [queries EXCEPT ![q].next = @ + 1]
               /\ out' = IF changes(v)
                         THEN Append(out, [s |-> s, v |-> v, src |-> "tail"])
                         ELSE out
               /\ UNCHANGED <<rxjs, sess>>
    /\ UNCHANGED <<kind, argStep, isTerminal, inputs, store, rev, selState, errLog, stepSel, steps, fetches, stepOut>>

\* ------------------------------------------- the cache store's other writers
StoreWrite(key) ==
    /\ kind = "content"
    /\ inputs < MaxInputs
    /\ inputs' = inputs + 1
    /\ rev' = rev + 1
    /\ store' = [store EXCEPT ![key] = rev + 1]
    /\ queries' = Notify(queries, key, rev + 1)
    /\ UNCHANGED <<kind, rxjs, argStep, isTerminal, selState, sess, out, errLog, stepSel, steps, fetches, stepOut>>

StoreDelete(key) ==
    /\ kind = "content"
    /\ inputs < MaxInputs
    /\ inputs' = inputs + 1
    /\ store[key] # Absent
    /\ store' = [store EXCEPT ![key] = Absent]
    /\ queries' = Notify(queries, key, Absent)
    /\ UNCHANGED <<kind, rxjs, argStep, isTerminal, rev, selState, sess, out, errLog, stepSel, steps, fetches, stepOut>>


\* ======================================================== the step monitor
MaxFetches == 4        \* calls of fetchInvocationStepById in one run
PollTick == 3000       \* granularity of the clock while polling (ms)

\* the step identifiers submitted. The monitor only passes the identifier on
\* to fetchInvocationStepById, and switchMap starts a new session for every
\* submission, whether or not the identifier is the one before it
StepIds == {"S1"}

Job(st) == [state |-> st]
\* the step records the server answers with
ServerSteps ==
    { [state |-> "running",   jobs |-> <<Job("running")>>],
      [state |-> "failed",    jobs |-> <<Job("ok"), Job("error")>>],
      [state |-> "failed",    jobs |-> <<Job("ok"), Job("running")>>],
      [state |-> "ok",        jobs |-> <<Job("ok")>>],
      [state |-> "scheduled", jobs |-> <<>>] }
NoStep == [state |-> "none", jobs |-> <<>>]

TERMINAL_JOB_STATES == {"ok", "error", "deleted", "paused"}
TERMINAL_STEP_STATES == {"scheduled", "cancelled", "failed"}

\* faulty variant: some job, not every job, has to be terminal
stepIsTerminalSome(step) ==
    /\ step.state \in TERMINAL_STEP_STATES
    /\ \E i \in 1..Len(step.jobs) : step.jobs[i].state \in TERMINAL_JOB_STATES

stepIsTerminal(step) ==
    /\ step.state \in TERMINAL_STEP_STATES
    /\ \A i \in 1..Len(step.jobs) : step.jobs[i].state \in TERMINAL_JOB_STATES

\* phases in which the subscription made by createInvocationStepMonitor is alive
StepLive == {"initial", "waiting", "polling"}

\* switchMap unsubscribing the previous inner observable
StepUnsub(r) == [r EXCEPT !.phase = IF @ \in StepLive THEN "cancelled" ELSE @]

\* faulty variant: mergeMap in place of switchMap
StepSupersedeNone(ss) == ss

StepSupersede(ss) == [i \in DOMAIN ss |-> StepUnsub(ss[i])]

\* a response reaches the monitor only while the call's subscriber is alive
StepFetchSubscribed(ss, f) ==
    \/ f.kind = "initial" /\ ss[f.s].phase = "initial"
    \/ f.kind = "poll" /\ ss[f.s].phase = "polling"

\* waited: the time between the arming of delay(3000) and this call
Call(s, k, w) == [s |-> s, kind |-> k, waited |-> w, status |-> "inflight", res |-> NoStep]

\* faulty variant: takeWhile left out, repeat() goes on for ever
AfterPollNoStop(r, val) == [r EXCEPT !.phase = "waiting", !.age = 0, !.due = delayDue(0, PollInterval)]

\* takeWhile((val) => !stepIsTerminal(val), true) on a poll result, then
\* repeat(): the value is emitted; a terminal one completes the monitor,
\* any other lets the source complete and repeat() subscribe it again,
\* which arms delay(3000)
AfterPoll(r, val) ==
    IF stepIsTerminal(val)
    THEN [r EXCEPT !.phase = "complete"]
    ELSE [r EXCEPT !.phase = "waiting", !.age = 0, !.due = delayDue(0, PollInterval)]

\* faulty variant: polling starts whatever the initial result is
AfterInitialPoll(r, val) == [r EXCEPT !.phase = "waiting", !.age = 0, !.due = delayDue(0, PollInterval)]

\* mergeMap((val) => iif(() => stepIsTerminal(val), of(val), pollingFetch$))
AfterInitial(r, val) ==
    IF stepIsTerminal(val)
    THEN [r EXCEPT !.phase = "complete"]
    ELSE [r EXCEPT !.phase = "waiting", !.age = 0, !.due = delayDue(0, PollInterval)]

\* faulty variant: the initial result is emitted too
EmittedAlways(f, val) == <<[s |-> f.s, v |-> val]>>

\* what a response makes the monitor emit
Emitted(f, val) ==
    IF f.kind = "initial"
    THEN IF stepIsTerminal(val) THEN <<[s |-> f.s, v |-> val]>> ELSE <<>>
    ELSE <<[s |-> f.s, v |-> val]>>

\* time passes: age is the time since delay(3000) was armed
StepTick ==
    /\ kind = "step"
    /\ \E s \in DOMAIN steps : steps[s].phase = "waiting" /\ steps[s].age < steps[s].due
    /\ steps' = [s \in DOMAIN steps |->
                   IF steps[s].phase = "waiting" THEN [steps[s] EXCEPT !.age = @ + PollTick] ELSE steps[s]]
    /\ UNCHANGED <<inputs, cvars, stepSel, fetches, stepOut>>

\* switchMap((id) => createInvocationStepMonitor(id)): the previous inner
\* subscription is dropped; initialFetch$ is subscribed: the fetch is sent
StepSubmit(id) ==
    /\ kind = "step"
    /\ inputs < MaxInputs
    /\ inputs' = inputs + 1
    /\ stepSel = "open"
    /\ Len(steps) < MaxSubmits
    /\ Len(fetches) < MaxFetches
    /\ steps' = Append(StepSupersede(steps), [id |-> id, phase |-> "initial", age |-> 0, due |-> 0])
    /\ fetches' = Append(fetches, Call(Len(steps) + 1, "initial", 0))
    /\ UNCHANGED <<cvars, stepSel, stepOut>>

\* the caller unsubscribes the selector
StepUnsubscribe ==
    /\ kind = "step"
    /\ inputs < MaxInputs
    /\ inputs' = inputs + 1
    /\ stepSel = "open"
    /\ stepSel' = "closed"
    /\ steps' = StepSupersede(steps)
    /\ UNCHANGED <<cvars, fetches, stepOut>>

\* a response of fetchInvocationStepById arrives
StepFetchResolve(i, val) ==
    /\ kind = "step"
    /\ fetches[i].status = "inflight"
    /\ LET f == fetches[i]
       IN IF StepFetchSubscribed(steps, f)
          THEN /\ fetches' = [fetches EXCEPT ![i].status = "resolved", ![i].res = val]
               /\ stepOut' = stepOut \o Emitted(f, val)
               /\ steps' = [steps EXCEPT ![f.s] = IF f.kind = "initial"
                                                  THEN AfterInitial(@, val)
                                                  ELSE AfterPoll(@, val)]
          ELSE /\ fetches' = [fetches EXCEPT ![i].status = "dropped"]
               /\ UNCHANGED <<steps, stepOut>>
    /\ UNCHANGED <<inputs, cvars, stepSel>>

\* faulty variant: the error is caught and the poll retried after the interval
StepFailRetry(ss, s) == [ss EXCEPT ![s].phase = "waiting", ![s].age = 0, ![s].due = delayDue(0, PollInterval)]

\* an error of the inner observable: takeWhile, mergeMap and switchMap pass
\* it on to the output, every subscription is torn down
StepFail(ss, s) == [StepSupersede(ss) EXCEPT ![s].phase = "error"]

\* a call of fetchInvocationStepById fails: mergeMap and switchMap forward
\* the error to the output
StepFetchFail(i) ==
    /\ kind = "step"
    /\ fetches[i].status = "inflight"
    /\ LET f == fetches[i]
       IN IF StepFetchSubscribed(steps, f)
          THEN /\ fetches' = [fetches EXCEPT ![i].status = "failed"]
               /\ steps' = StepFail(steps, f.s)
               /\ stepSel' = "error"
          ELSE /\ fetches' = [fetches EXCEPT ![i].status = "dropped"]
               /\ UNCHANGED <<steps, stepSel>>
    /\ UNCHANGED <<inputs, cvars, stepOut>>

\* faulty variant: a periodic timer in place of delay + repeat: the timer
\* is armed again at once
SendPollRearm(r) == [r EXCEPT !.age = 0]

\* of(id) |> delay(3000) |> fetchInvocationStepById(): the delayed id is
\* handed to the fetch; nothing is armed until repeat() subscribes again
SendPoll(r) == [r EXCEPT !.phase = "polling"]

\* delay(3000) of pollingFetch$ elapses: the next fetch is sent
StepTimerFire(s) ==
    /\ kind = "step"
    /\ steps[s].phase = "waiting"
    /\ steps[s].age >= steps[s].due
    /\ Len(fetches) < MaxFetches
    /\ steps' = [steps EXCEPT ![s] = SendPoll(@)]
    /\ fetches' = Append(fetches, Call(s, "poll", steps[s].age))
    /\ UNCHANGED <<inputs, cvars, stepSel, stepOut>>

Next ==
    \/ Tick
    \/ \E r \in Requests : Submit(r[1], r[2])
    \/ Unsubscribe
    \/ \E s \in DOMAIN sess : TimerFire(s)
    \/ \E s \in DOMAIN sess : FetchResolve(s)
    \/ \E s \in DOMAIN sess : FetchFail(s)
    \/ \E s \in DOMAIN sess : CacheWriteApply(s)
    \/ \E s \in DOMAIN sess : CacheWriteFail(s)
    \/ \E s \in DOMAIN sess : CacheWriteReturn(s)
    \/ \E q \in DOMAIN queries : FeedDeliver(q)
    \/ \E key \in Keys : StoreWrite(key)
    \/ \E key \in Keys : StoreDelete(key)
    \/ StepTick
    \/ \E id \in StepIds : StepSubmit(id)
    \/ StepUnsubscribe
    \/ \E i \in DOMAIN fetches, val \in ServerSteps : StepFetchResolve(i, val)
    \/ \E i \in DOMAIN fetches : StepFetchFail(i)
    \/ \E s \in DOMAIN steps : StepTimerFire(s)

Spec == Init /\ [][Next]_vars

\* ============================================== stepIsTerminal on its own
MaxJobs == 2           \* jobs of a step given to stepIsTerminal

\* the step and job states given to stepIsTerminal
StepStates == {"scheduled", "cancelled", "failed", "ok", "running"}
JobStates == {"ok", "error", "deleted", "paused", "running", "new"}
JobLists == UNION {[1..n -> {Job(st) : st \in JobStates}] : n \in 0..MaxJobs}

TerminalInit ==
    /\ kind = "stepIsTerminal"
    /\ rxjs = 0
    /\ argStep \in {[state |-> st, jobs |-> js] : st \in StepStates, js \in JobLists}
    /\ isTerminal = <<>>
    /\ inputs = 0
    /\ store = [k \in Keys |-> Absent]
    /\ rev = 0
    /\ selState = "open"
    /\ sess = <<>>
    /\ queries = <<>>
    /\ out = <<>>
    /\ errLog = <<>>
    /\ stepSel = "open"
    /\ steps = <<>>
    /\ fetches = <<>>
    /\ stepOut = <<>>

\* stepIsTerminal(step) is called and returns
CallStepIsTerminal ==
    /\ kind = "stepIsTerminal"
    /\ isTerminal = <<>>
    /\ isTerminal' = <<stepIsTerminal(argStep)>>
    /\ UNCHANGED <<kind, rxjs, argStep, inputs, store, rev, selState, sess, queries, out, errLog,
                   stepSel, steps, fetches, stepOut>>

TerminalNext == CallStepIsTerminal

TerminalSpec == TerminalInit /\ [][TerminalNext]_vars

\* ================================================================ properties
\* the values session s has emitted, and the feeds it has open
Outs(s) == SelectSeq(out, LAMBDA e : e.s = s)
Vals(es) == [i \in DOMAIN es |-> es[i].v]
OpenFeeds(s) == {q \in DOMAIN queries : queries[q].open /\ queries[q].s = s}
KnownType(r) == r.ct \in {"dataset", "dataset_collection"}

\* index of the first present snapshot of a feed history (0 if none)
FirstPresent(h) ==
    IF \E k \in DOMAIN h : h[k] # Absent
    THEN CHOOSE k \in DOMAIN h : h[k] # Absent /\ \A j \in 1..(k - 1) : h[j] = Absent
    ELSE 0

\* the calls of fetchInvocationStepById made for step session s, its values
Calls(s) == SelectSeq(fetches, LAMBDA f : f.s = s)
StepOuts(s) == Vals(SelectSeq(stepOut, LAMBDA e : e.s = s))

\* ------------------------------------------------------------------------ C1
\* C1 as stated: when the record is in the cache before monitoring starts,
\* the first value emitted is that cached record and the fetch never wins
\* the race, under every interleaving.
C1_CachedRecordAlwaysFirst ==
    \A s \in DOMAIN sess :
        sess[s].pre # Absent =>
            /\ sess[s].cw # "returned"
            /\ Outs(s) # <<>> => Outs(s)[1].src = "cache" /\ Outs(s)[1].v = sess[s].pre

\* C1 amended: when the record is in the cache before monitoring starts, the
\* race is decided the moment the feed delivers that record (while the race
\* is open the feed has delivered nothing), and the first value is then the
\* cached record and the fetch side never delivers; if the fetch side
\* delivers first, the first value is the record that fetch wrote.
C1_CachedRecordFirstIfDelivered ==
    \A s \in DOMAIN sess :
        sess[s].pre # Absent =>
            /\ sess[s].phase = "race" =>
                   /\ OpenFeeds(s) # {}
                   /\ \A q \in OpenFeeds(s) : queries[q].next = 1 /\ queries[q].hist[1] = sess[s].pre
            /\ Outs(s) # <<>> =>
                   \/ /\ Outs(s)[1].src = "cache"
                      /\ Outs(s)[1].v = sess[s].pre
                      /\ sess[s].cw # "returned"
                   \/ /\ Outs(s)[1].src = "fetch"
                      /\ Outs(s)[1].v = sess[s].wrev
                      /\ sess[s].cw = "returned"

\* the cached record was emitted first although the fetch had been sent
C1_Witness ==
    \E s \in DOMAIN sess :
        /\ sess[s].pre # Absent
        /\ Outs(s) # <<>>
        /\ Outs(s)[1].src = "cache"
        /\ Outs(s)[1].v = sess[s].pre
        /\ sess[s].net \in {"inflight", "dropped"}

\* ------------------------------------------------------------------------ C2
\* C2: in a session that found no record in the cache, the fetcher is not
\* invoked while the spin-up delay is pending, and when it is invoked at
\* least SpinUpDelay ms have passed since the session started.
C2_NoFetchBeforeSpinUp ==
    \A s \in DOMAIN sess :
        sess[s].pre = Absent =>
            /\ sess[s].timer = "armed" => sess[s].net = "none" /\ sess[s].fetcher = "none"
            /\ sess[s].timer = "fired" => sess[s].age >= SpinUpDelay

C2_Witness ==
    \E s \in DOMAIN sess :
        /\ sess[s].pre = Absent
        /\ sess[s].timer = "fired"
        /\ sess[s].net = "inflight"
        /\ sess[s].fetcher # "none"

\* ------------------------------------------------------------------------ C3
\* the values emitted after the first one, against the feed the tail reads:
\* from is the index of the first snapshot the tail has to pass on
TailIs(s, q, from) ==
    /\ Vals(Tail(Outs(s))) = SubSeq(queries[q].hist, from, queries[q].next - 1)
    /\ \A i \in 2..Len(Outs(s)) : Outs(s)[i].src = "tail"

\* C3: after the first value, the emissions are the store mutations that
\* follow it (deletions included), once each and in order, whichever side
\* won the race: the snapshots of the feed that follow the one that stands
\* for the first value: the winning one where the feed of the race goes on
\* (cache win, rxjs 6), the one a feed opened anew starts with otherwise.
C3_TailExactlyTheMutations ==
    \A s \in DOMAIN sess :
        sess[s].phase = "tail" =>
            \E q \in OpenFeeds(s) :
                TailIs(s, q, IF Outs(s)[1].src = "cache" /\ rxjs = 6
                             THEN FirstPresent(queries[q].hist) + 1
                             ELSE 2)

\* ------------------------------------------------------------------------ C4
\* C4: when the first fetch of a step session returns a terminal step, the
\* monitor emits that one value and completes, and the session makes no
\* other fetch.
C4_TerminalShortcut ==
    \A s \in DOMAIN steps :
        (/\ Calls(s) # <<>>
         /\ Calls(s)[1].status = "resolved"
         /\ stepIsTerminal(Calls(s)[1].res)) =>
            /\ steps[s].phase = "complete"
            /\ StepOuts(s) = <<Calls(s)[1].res>>
            /\ Len(Calls(s)) = 1

C4_Witness ==
    \E s \in DOMAIN steps :
        /\ Calls(s) # <<>>
        /\ Calls(s)[1].status = "resolved"
        /\ Calls(s)[1].res.state = "failed"
        /\ stepIsTerminal(Calls(s)[1].res)
        /\ steps[s].phase = "complete"

\* ------------------------------------------------------------------------ C5
Running == [state |-> "running", jobs |-> <<Job("running")>>]
OkAllOk == [state |-> "ok", jobs |-> <<Job("ok")>>]

\* the first three calls of session s were answered a, b, c
Answered(s, a, b, c) ==
    /\ Len(Calls(s)) >= 3
    /\ \A i \in 1..3 : Calls(s)[i].status = "resolved"
    /\ <<Calls(s)[1].res, Calls(s)[2].res, Calls(s)[3].res>> = <<a, b, c>>

\* C5 as stated: answers running, running, ok-with-all-jobs-ok make the
\* monitor emit the three values in order and complete without a fourth
\* fetch.
C5_ThreeValuesThenComplete ==
    \A s \in DOMAIN steps :
        Answered(s, Running, Running, OkAllOk) =>
            /\ StepOuts(s) = <<Running, Running, OkAllOk>>
            /\ steps[s].phase = "complete"
            /\ Len(Calls(s)) = 3

\* C5 amended: with the answers running, running, x the monitor emits the
\* second and the third answer, in that order (the initial answer is not
\* emitted), each poll call made at least PollInterval ms after the answer
\* before it; it completes, with no fourth fetch, exactly when x is terminal
\* for stepIsTerminal. ok-with-all-jobs-ok is not: the monitor goes on
\* polling, and completes only on a later answer that is terminal.
C5_PollsUntilTerminal ==
    /\ ~stepIsTerminal(OkAllOk)
    /\ \A s \in DOMAIN steps : \A x \in ServerSteps :
        Answered(s, Running, Running, x) =>
            /\ SubSeq(StepOuts(s), 1, 2) = <<Running, x>>
            /\ Calls(s)[2].waited >= PollInterval
            /\ Calls(s)[3].waited >= PollInterval
            /\ stepIsTerminal(x) =>
                   /\ steps[s].phase = "complete"
                   /\ Len(Calls(s)) = 3
                   /\ Len(StepOuts(s)) = 2
            /\ ~stepIsTerminal(x) =>
                   /\ Len(Calls(s)) = 3 => steps[s].phase \in {"waiting", "cancelled"}
                   /\ steps[s].phase = "complete" =>
                          /\ Len(Calls(s)) >= 4
                          /\ stepIsTerminal(Calls(s)[Len(Calls(s))].res)

\* after running, running, ok-with-all-jobs-ok a fourth fetch was sent
C5_Witness ==
    \E s \in DOMAIN steps :
        /\ Answered(s, Running, Running, OkAllOk)
        /\ Len(Calls(s)) = 4
        /\ StepOuts(s) = <<Running, OkAllOk>>

\* ------------------------------------------------------------------------ C6
\* C6: once another identifier has been submitted, a session whose fetch
\* result had not been handed to cacheContent never hands it over, and
\* emits nothing more.
C6_SwitchDropsFetch ==
    [][\A s \in DOMAIN sess :
          (s < Len(sess) /\ sess[s].cw = "none") =>
              /\ sess'[s].cw = "none"
              /\ Outs(s)' = Outs(s)]_vars

\* the response of the previous identifier arrived after the switch
C6_Witness ==
    \E s \in DOMAIN sess :
        /\ s < Len(sess)
        /\ sess[s].net = "dropped"
        /\ sess[s].cw = "none"
        /\ KnownType(sess[Len(sess)])

\* ------------------------------------------------------------------------ C7
\* C7: a dispatch with a content type other than dataset and
\* dataset_collection is reported with console.error and no fetcher is
\* ever invoked for it.
C7_UnknownTypeReported ==
    \A s \in DOMAIN sess :
        ~KnownType(sess[s]) =>
            /\ \E i \in DOMAIN errLog : errLog[i] = <<sess[s].ct, sess[s].id>>
            /\ sess[s].fetcher = "none"
            /\ sess[s].net = "none"
            /\ sess[s].timer = "none"

C7_Witness == \E s \in DOMAIN sess : sess[s].ct = "widget"

\* ------------------------------------------------------------------------ C8
\* C8 as stated: a dispatch with an unknown content type starts nothing (no
\* query, no value) and leaves the selector able to take the identifiers
\* that follow.
C8_SelectorSurvivesUnknownType ==
    \A s \in DOMAIN sess :
        ~KnownType(sess[s]) =>
            /\ \A q \in DOMAIN queries : queries[q].s # s
            /\ Outs(s) = <<>>
            /\ selState # "error"

\* ------------------------------------------------------------------------ C9
\* C9 as stated: a session fails only if the cache side has no present
\* record to produce; a session whose record was in the cache from the
\* start never fails.
C9_ErrorOnlyWithoutRecord ==
    \A s \in DOMAIN sess : sess[s].phase = "error" => sess[s].pre = Absent

\* C9 amended: a failure of the fetcher or of the cache write ends the
\* session, and the selector's output, with an error exactly when it comes
\* while the race is undecided; nothing has been emitted then, whatever the
\* cache holds. A failure that comes after the cache side has won is
\* discarded and the session goes on.
C9_ErrorIffRaceUndecided ==
    \A s \in DOMAIN sess :
        /\ sess[s].phase = "error" <=> (sess[s].net = "failed" \/ sess[s].cw = "failed")
        /\ sess[s].phase = "error" => Outs(s) = <<>> /\ selState = "error"
        /\ (sess[s].net = "fail-dropped" \/ sess[s].cw = "fail-dropped") =>
               sess[s].phase # "error"

\* the fetch failed after the cache had won: the session goes on
C9_Witness ==
    \E s \in DOMAIN sess :
        /\ sess[s].phase = "tail"
        /\ sess[s].net = "fail-dropped"
        /\ Outs(s) # <<>>
        /\ Outs(s)[1].src = "cache"
        /\ selState = "open"

\* ----------------------------------------------------------------------- C10
\* C10: of the sessions of a selector only the last can be active: an
\* earlier one has no subscription, no pending delay, no open query, and
\* emits nothing once its successor exists (the output is ordered by
\* session); likewise for the step monitor.
C10_OneActive ==
    /\ \A s \in DOMAIN sess :
          s < Len(sess) =>
              /\ sess[s].phase \notin Live
              /\ sess[s].timer # "armed"
              /\ OpenFeeds(s) = {}
    /\ \A i, j \in DOMAIN out : i < j => out[i].s <= out[j].s
    /\ \A s \in DOMAIN steps : s < Len(steps) => steps[s].phase \notin StepLive
    /\ \A i, j \in DOMAIN stepOut : i < j => stepOut[i].s <= stepOut[j].s

\* the second session emits after the first one had
C10_Witness ==
    /\ Len(sess) = 2
    /\ sess[2].phase \in Live
    /\ Outs(1) # <<>>
    /\ Outs(2) # <<>>

\* ----------------------------------------------------------------------- C11
\* session s stops in this step
Stops(s) == sess[s].phase \in Live /\ sess'[s].phase \notin Live
\* the step is a submission to the selector, the caller's unsubscription
Switched == Len(sess') > Len(sess)
Unsubscribed == selState = "open" /\ selState' = "closed"

\* C11 as stated: a content monitor session is stopped by nothing but the
\* caller unsubscribing or the selector switching to another identifier.
C11_StopsOnlyBySwitchOrUnsubscribe ==
    [][\A s \in DOMAIN sess : Stops(s) => (Switched \/ Unsubscribed)]_vars

\* C11 amended: a content monitor session never completes; it is stopped by
\* the caller unsubscribing, by the selector switching to another
\* identifier, or, before it has emitted anything, by an error of its fetch
\* or of its cache write; once it has emitted its first value only the
\* first two stop it.
C11_NeverCompletes ==
    [][\A s \in DOMAIN sess :
          /\ sess'[s].phase # "complete"
          /\ Stops(s) =>
                \/ Switched
                \/ Unsubscribed
                \/ /\ sess'[s].phase = "error"
                   /\ sess[s].phase = "race"
                   /\ Outs(s) = <<>>
                   /\ sess'[s].net = "failed" \/ sess'[s].cw = "failed"]_vars

\* a session that had emitted twice was stopped by the caller unsubscribing
C11_Witness ==
    \E s \in DOMAIN sess :
        /\ selState = "closed"
        /\ sess[s].phase = "cancelled"
        /\ Len(Outs(s)) >= 2

\* ----------------------------------------------------------------------- C12
\* C12: once another identifier has been submitted to invocationStepMonitor,
\* no fetch is issued and no value is emitted for the previous one, whether
\* it was waiting for its interval or had a fetch in flight; the new session
\* starts with a fetch sent at once.
C12_StepSwitchStartsFresh ==
    [][/\ \A s \in DOMAIN steps :
             s < Len(steps') =>
                 /\ Len(Calls(s)') = Len(Calls(s))
                 /\ StepOuts(s)' = StepOuts(s)
       /\ Len(steps') > Len(steps) =>
             /\ steps'[Len(steps')].phase = "initial"
             /\ Len(fetches') = Len(fetches) + 1
             /\ LET f == fetches'[Len(fetches')]
                IN /\ f.s = Len(steps')
                   /\ f.kind = "initial"
                   /\ f.waited = 0
                   /\ f.status = "inflight"]_vars

\* the first session was switched away with a poll in flight, whose
\* response came afterwards; the second session has had its first answer
C12_Witness ==
    \E s \in DOMAIN steps :
        /\ s < Len(steps)
        /\ Len(Calls(s)) >= 2
        /\ Calls(s)[Len(Calls(s))].kind = "poll"
        /\ Calls(s)[Len(Calls(s))].status = "dropped"
        /\ Calls(Len(steps)) # <<>>
        /\ Calls(Len(steps))[1].status = "resolved"

\* ----------------------------------------------------------------------- C13
\* the answered poll calls of session s, in the order they were made
Polls(s) == SelectSeq(Calls(s), LAMBDA f : f.kind = "poll" /\ f.status = "resolved")

\* C13: when the initial result is not terminal it is not emitted; the
\* values emitted are the poll results in fetch order; all but the last are
\* non-terminal; the monitor completes exactly when a terminal poll result
\* has been emitted, and that result is the last thing fetched and emitted.
C13_PollResultsUntilTerminal ==
    \A s \in DOMAIN steps :
        (/\ Calls(s) # <<>>
         /\ Calls(s)[1].status = "resolved"
         /\ ~stepIsTerminal(Calls(s)[1].res)) =>
            LET o == StepOuts(s)
                n == Len(Calls(s))
            IN /\ o = [i \in DOMAIN Polls(s) |-> Polls(s)[i].res]
               /\ \A i \in 1..(Len(o) - 1) : ~stepIsTerminal(o[i])
               /\ steps[s].phase = "complete" <=> (o # <<>> /\ stepIsTerminal(o[Len(o)]))
               /\ steps[s].phase = "complete" =>
                      /\ Calls(s)[n].status = "resolved"
                      /\ Calls(s)[n].res = o[Len(o)]
                      /\ n = Len(o) + 1

\* a run of two polls: a non-terminal result, then the terminal one
C13_Witness ==
    \E s \in DOMAIN steps :
        /\ steps[s].phase = "complete"
        /\ Len(StepOuts(s)) = 2
        /\ ~stepIsTerminal(Calls(s)[1].res)
        /\ ~stepIsTerminal(StepOuts(s)[1])
        /\ stepIsTerminal(StepOuts(s)[2])

\* ----------------------------------------------------------------------- C14
\* the calls of session s that have not been answered
InFlight(s) == {i \in DOMAIN Calls(s) : Calls(s)[i].status = "inflight"}

\* C14: a step session has at most one fetch in flight, its latest; while
\* the interval timer is pending none is: the timer is armed only when the
\* result of the previous fetch has been seen.
C14_PollsNeverOverlap ==
    \A s \in DOMAIN steps :
        /\ Cardinality(InFlight(s)) <= 1
        /\ InFlight(s) \subseteq {Len(Calls(s))}
        /\ steps[s].phase = "waiting" =>
               /\ InFlight(s) = {}
               /\ Calls(s)[Len(Calls(s))].status = "resolved"
        /\ steps[s].phase = "polling" => InFlight(s) = {Len(Calls(s))}

\* the third fetch of a session is in flight, the two before it answered
C14_Witness ==
    \E s \in DOMAIN steps :
        /\ Len(Calls(s)) = 3
        /\ InFlight(s) = {3}
        /\ Calls(s)[1].status = "resolved"
        /\ Calls(s)[2].status = "resolved"
        /\ Calls(s)[3].waited >= PollInterval

\* ----------------------------------------------------------------------- C15
\* a fetch of session s has failed
Failed(s) == Calls(s) # <<>> /\ Calls(s)[Len(Calls(s))].status = "failed"

\* C15: a failed fetch of a step session, the initial one or a poll, ends
\* the session and the output with an error: from then on the session
\* emits nothing, makes no fetch and arms no timer.
C15_StepFetchFailureIsFinal ==
    [][\A s \in DOMAIN steps :
          Failed(s)' =>
              /\ steps'[s].phase = "error"
              /\ stepSel' = "error"
              /\ StepOuts(s)' = StepOuts(s)
              /\ Failed(s) => Calls(s)' = Calls(s)]_vars

\* a poll failed after the session had emitted a value
C15_Witness ==
    \E s \in DOMAIN steps :
        /\ Failed(s)
        /\ Calls(s)[Len(Calls(s))].kind = "poll"
        /\ StepOuts(s) # <<>>
        /\ steps[s].phase = "error"

\* ----------------------------------------------------------------------- C16
\* C16: stepIsTerminal(step) returns true exactly when step.state is one of
\* scheduled, cancelled, failed and no job of the step has a state other
\* than ok, error, deleted, paused; so a step in one of those three states
\* with no jobs is terminal, and a step in state ok or running never is.
C16_TerminalIff ==
    isTerminal # <<>> =>
        LET st == argStep.state
            jobStates == {argStep.jobs[i].state : i \in DOMAIN argStep.jobs}
        IN /\ isTerminal[1] <=>
                  /\ st = "scheduled" \/ st = "cancelled" \/ st = "failed"
                  /\ jobStates \subseteq {"ok", "error", "deleted", "paused"}
           /\ (st \in {"scheduled", "cancelled", "failed"} /\ argStep.jobs = <<>>) => isTerminal[1]
           /\ st \in {"ok", "running"} => ~isTerminal[1]

\* a cancelled step with a deleted and a paused job was found terminal
C16_Witness ==
    /\ isTerminal = <<TRUE>>
    /\ argStep.state = "cancelled"
    /\ argStep.jobs = <<Job("deleted"), Job("paused")>>

\* ----------------------------------------------------------------------- C17
\* the emissions of session s that came out of the race
RaceVals(s) == {i \in DOMAIN Outs(s) : Outs(s)[i].src \in {"cache", "fetch"}}

\* C17: the race of a session contributes one value, the first; when it is
\* decided the delay of the fetch side is no longer pending, and a fetch
\* that had not been answered when the cache side won is never handed to
\* cacheContent and never emitted.
C17_RaceGivesOneValue ==
    [][\A s \in DOMAIN sess :
          /\ RaceVals(s)' \subseteq {1}
          /\ sess'[s].phase = "tail" =>
                 /\ RaceVals(s)' = {1}
                 /\ sess'[s].timer # "armed"
          /\ (sess[s].phase = "tail" /\ sess[s].cw = "none") =>
                 /\ sess'[s].cw = "none"
                 /\ sess'[s].net \in {sess[s].net, "dropped", "fail-dropped"}]_vars

\* the answer to the fetch came after the cache side had won; the session
\* went on with the tail
C17_Witness ==
    \E s \in DOMAIN sess :
        /\ sess[s].phase = "tail"
        /\ Outs(s)[1].src = "cache"
        /\ sess[s].net = "dropped"
        /\ sess[s].cw = "none"
        /\ Len(Outs(s)) >= 2

\* ----------------------------------------------------------------------- C18
\* the queries monitorContentQuery has opened for session s
FeedsOf(s) == {q \in DOMAIN queries : queries[q].s = s}

\* C18: within one session the cache query is opened once, whichever side
\* wins the race: a session has one query, open for as long as the session
\* is subscribed.
C18_QueryOpenedOnce ==
    \A s \in DOMAIN sess :
        /\ Cardinality(FeedsOf(s)) <= 1
        /\ sess[s].phase \in Live => \A q \in FeedsOf(s) : queries[q].open

\* ----------------------------------------------------------------------- C19
\* C19: a session in which the cache feed produces a present record while
\* the spin-up delay is pending never sends a fetch and never calls
\* cacheContent; the fetch is sent when the delay runs out with the race
\* still undecided, and only then.
C19_CacheHitSparesFetch ==
    [][\A s \in DOMAIN sess :
          /\ sess'[s].timer = "armed" => sess'[s].net = "none" /\ sess'[s].cw = "none"
          /\ (sess[s].phase # "race" /\ sess[s].net = "none") =>
                 sess'[s].net = "none" /\ sess'[s].cw = "none"
          /\ (sess[s].timer = "armed" /\ sess'[s].timer = "fired") =>
                 /\ sess'[s].net = "inflight"
                 /\ sess'[s].fetcher = fetcherOf(sess[s].ct)
          /\ (sess[s].net = "none" /\ sess'[s].net # "none") =>
                 /\ sess'[s].timer = "fired"
                 /\ sess[s].phase = "race"
                 /\ sess[s].age >= SpinUpDelay
                 /\ Outs(s) = <<>>]_vars

\* a record written by another writer during the delay won the race: the
\* session is in its tail and has sent no fetch
C19_Witness ==
    \E s \in DOMAIN sess :
        /\ sess[s].pre = Absent
        /\ sess[s].phase = "tail"
        /\ Outs(s)[1].src = "cache"
        /\ sess[s].net = "none"
        /\ sess[s].cw = "none"
        /\ Len(Outs(s)) >= 2

\* ----------------------------------------------------------------------- C20
\* C20: absent snapshots delivered while the race is undecided are not
\* emitted and do not decide it: a session emits nothing while it races,
\* and its first value is a present record; from then on every snapshot the
\* feed delivers is emitted, the absent ones (deletions) too. (The feed the
\* tail reads is the one of the race, continued after the record that won,
\* where the cache side won under rxjs 6; otherwise it is a feed opened
\* anew.)
C20_AbsenceOnlyAfterFirstValue ==
    \A s \in DOMAIN sess :
        /\ sess[s].phase = "race" => Outs(s) = <<>>
        /\ Outs(s) # <<>> => Outs(s)[1].v # Absent
        /\ sess[s].phase = "tail" =>
               \A q \in OpenFeeds(s) :
                   LET h == queries[q].hist
                       same == Outs(s)[1].src = "cache" /\ rxjs = 6
                       from == IF same THEN FirstPresent(h) + 1 ELSE 1
                   IN /\ same => h[FirstPresent(h)] = Outs(s)[1].v
                      /\ Vals(Tail(Outs(s))) = SubSeq(h, from, queries[q].next - 1)

\* the feed first reported no match, a record written later won the race,
\* and its deletion was emitted after it
C20_Witness ==
    \E s \in DOMAIN sess :
        /\ sess[s].phase = "tail"
        /\ sess[s].pre = Absent
        /\ Outs(s)[1].src = "cache"
        /\ \E i \in 2..Len(Outs(s)) : Outs(s)[i].v = Absent

====
